---- MODULE Spec2Model ----
(***************************************************************************)
(* The model layer of AirSS: the promise chain `state` that serializes     *)
(* the client side functions, the item cursor store (items, reading,       *)
(* known), and the feed poll, in the two variants of the model layer:      *)
(*   "A"  src/src/airss_model.js  (cb_loadMore / loadMore / loadFeed)      *)
(*   "B"  src/unnamed/part_000    (cb_getLoadCandidate / cb_updateFeed,    *)
(*                                 driven by the loader)                   *)
(* The feed registry (feeds.js) and the loader (loader.js) are not part of *)
(* the sources at hand; their operators are modelled from the              *)
(* specification and are marked so where they are defined.                 *)
(***************************************************************************)
EXTENDS Integers, Sequences, FiniteSets, TLC

VARIABLES
    variant,    \* which variant of the model layer runs: "A" or "B"
    now,        \* the wall clock, new Date()
    db,         \* the idb handle: "null" or "open"
    itemStore,  \* the persistent "items" object store: id -> record
    nextId,     \* the key generator of the items store (autoIncrement)
    items,      \* Items.items: array of item ids
    reading,    \* Items.reading
    known,      \* Items.known
    feedStore,  \* the persistent "feeds" object store: id -> record
    nextFeedId, \* the key generator of the feeds store
    feeds,      \* Feeds: the in-memory round-robin order of feed ids
    chain,      \* the promise chain: chain[Len(chain)] is `state`
    fetches,    \* variant B: fetches the loader has in flight (feed records)
    last,       \* history: the Items/Feeds function the last step ran, its result
    poll,       \* history: the run of loadMore under way or just over
    events      \* the events dispatched by the last step

vars == <<variant, now, db, itemStore, nextId, items, reading, known,
          feedStore, nextFeedId, feeds, chain, fetches, last, poll, events>>

(***************************************************************************)
(* Bounds of the model and constants of the program                        *)
(***************************************************************************)
\* when the unread count is below this, more is loaded (configurable, 10)
WaterMark == 2
\* the minimal elapsed time before a reload, in ticks of the model clock
\* (one tick is the reload wait: an hour in variant A, 12 hours in B)
MinReloadWait == 1
\* variant B: a feed silent for this long gets a placeholder item (180 days
\* of 24 hours, in ticks of 12 hours)
MaxKeptPeriod == 360
\* the clock advances at most this many ticks
MaxTicks == 1
\* the items store hands out the ids 1..MaxId
MaxId == 3
\* SpecQ: a client call is accepted while at most this many promises of the
\* chain are unsettled
MaxPending == 2
\* at most this many entries in one fetched document
MaxDoc == 2
\* the feeds store hands out the ids 1..MaxFeeds
MaxFeeds == 2
\* variant B: a client call that starts the loader is accepted while fewer
\* than this many runs of the loader are under way
MaxLoads == 2

\* lastLoadTime of a new feed: the epoch
Epoch == 0
\* the clock at the start: long after the epoch
StartTime == Epoch + MaxKeptPeriod + MinReloadWait + 1
MaxTime == StartTime + MaxTicks

Urls == {1, 2}
FeedUrls == {1, 2}

Null == [k |-> "null"]
Undefined == [k |-> "undefined"]
ItemVal(rec) == [k |-> "item", item |-> rec]
FeedVal(rec) == [k |-> "feed", feed |-> rec]
BoolVal(b) == [k |-> "bool", b |-> b]
ErrorVal(e) == [k |-> "error", e |-> e]
ErrorMarker == "_error"

Settled == {"resolved", "rejected"}

(***************************************************************************)
(* Helpers: arrays and the object stores                                   *)
(***************************************************************************)
Min(S) == CHOOSE x \in S : \A y \in S : x <= y

RECURSIVE Ascending(_)
\* the keys of a store in the order of a cursor scan
Ascending(S) == IF S = {} THEN <<>>
                ELSE <<Min(S)>> \o Ascending(S \ {Min(S)})

Range(s) == {s[n] : n \in 1..Len(s)}

\* Array.prototype.slice(0, n).concat(slice(n + 1)), n a 0-based index
RemoveAt(s, n) == [m \in 1..(Len(s) - 1) |-> IF m <= n THEN s[m] ELSE s[m + 1]]

\* put(store, record): upsert by key
StorePut(store, rec) ==
    [x \in (DOMAIN store) \cup {rec.id} |-> IF x = rec.id THEN rec ELSE store[x]]

\* delete(store, key)
StoreDelete_Keeps(store, key) == store
StoreDelete(store, key) == [x \in (DOMAIN store) \ {key} |-> store[x]]

Emit(type, text) == [ev |-> "alert", type |-> type, text |-> text]
ItemsLoaded(len, cur) == [ev |-> "items-loaded", length |-> len, cursor |-> cur]
InitDoneEv == [ev |-> "init-done"]
ShutDownEv == [ev |-> "shutdown"]

NoCall == [fn |-> "none"]
Call(fn, ret) == [fn |-> fn, ret |-> ret]

\* the record of a run of loadMore is kept for one step after its end
PollKept == IF poll.run = "done" THEN [run |-> "none", at |-> 0,
                                       order0 |-> <<>>, elig0 |-> {},
                                       unread0 |-> 0, fetched |-> <<>>]
            ELSE poll

(***************************************************************************)
(* The promise chain                                                       *)
(***************************************************************************)
NoArg == [k |-> "none"]

\* a call of an async function cb_xxx(state, arg): pending until `await prev`
Op(op, arg) == [op |-> op, arg |-> arg, st |-> "pending", pc |-> "",
                val |-> Undefined, ran |-> FALSE, loc |-> NoArg]

\* settled promises nobody awaits any more are dropped from the model
RECURSIVE Trim(_)
Trim(c) == IF Len(c) >= 2 /\ c[1].st \in Settled /\ c[2].st # "pending"
           THEN Trim(Tail(c)) ELSE c

\* the promise i settles after its body ran. Of a fulfilled promise the
\* chain reads the value only in cb_markRead, which forwardItem puts behind
\* cb_forwardItem; the model forgets the other values and whose they are
Settle(i, st, val) ==
    Trim([chain EXCEPT ![i] =
        [op |-> IF st = "resolved" THEN "settled" ELSE @.op,
         arg |-> NoArg, st |-> st, pc |-> "",
         val |-> IF st = "resolved" /\ @.op # "forwardItem" THEN Undefined
                 ELSE val,
         ran |-> TRUE, loc |-> NoArg]])

\* the body of promise i suspends at an await
Suspend(i, pc, loc) ==
    Trim([chain EXCEPT ![i] = [@ EXCEPT !.st = "running", !.pc = pc,
                                        !.ran = TRUE, !.loc = loc]])

\* `await prev` is over: the promise this one was called with has settled
AwaitPrev_Skipped(i) == TRUE
AwaitPrev(i) == chain[i - 1].st \in Settled

\* the body of the pending promise i may start: prev was fulfilled
CanStart(i, op) ==
    /\ i \in 2..Len(chain)
    /\ chain[i].op = op
    /\ chain[i].st = "pending"
    /\ AwaitPrev(i)
    /\ chain[i - 1].st # "rejected"

At(i, op, pc) ==
    /\ i \in 1..Len(chain)
    /\ chain[i].op = op
    /\ chain[i].st = "running"
    /\ chain[i].pc = pc

Unsettled == {i \in 1..Len(chain) : chain[i].st \notin Settled}

\* the client side functions: state = cb_xxx(state, ...), one or more times
Submit(ops) == chain' = chain \o ops

\* a client side function is called while at most cap promises of the
\* chain are unsettled
Room(cap) == Cardinality(Unsettled) <= cap

(***************************************************************************)
(* items.js: the cursor store                                              *)
(***************************************************************************)
StoreVars == <<itemStore, nextId>>
CursorVars == <<items, reading, known>>
FeedVars == <<feedStore, nextFeedId, feeds>>

\* items[n], n a 0-based index; 0 stands for undefined
ItemAt(n) == IF n + 1 \in 1..Len(items) THEN items[n + 1] ELSE 0

length == Len(items)
readingCursor == reading
knownCursor == known

\* items.length - known - 1, of the array arr and the cursor k
UnreadOf(arr, k) == Len(arr) - k - 1
unreadCount == UnreadOf(items, known)

forwardCursor_KeepsKnown ==
    IF reading >= Len(items) - 1
    THEN [ret |-> FALSE, reading |-> reading, known |-> known]
    ELSE [ret |-> TRUE, reading |-> reading + 1, known |-> known]
forwardCursor_NoEndCheck ==
    [ret |-> TRUE, reading |-> reading + 1,
     known |-> IF known < reading + 1 THEN reading + 1 ELSE known]
forwardCursor ==
    IF reading >= Len(items) - 1
    THEN [ret |-> FALSE, reading |-> reading, known |-> known]
    ELSE [ret |-> TRUE, reading |-> reading + 1,
          known |-> IF known < reading + 1 THEN reading + 1 ELSE known]

backwardCursor_NoStartCheck ==
    [ret |-> TRUE, reading |-> reading - 1]
backwardCursor ==
    IF reading <= 0
    THEN [ret |-> FALSE, reading |-> reading]
    ELSE [ret |-> TRUE, reading |-> reading - 1]

\* db.get(Store, key): the record, or undefined
DbGet(key) == IF key \in DOMAIN itemStore THEN ItemVal(itemStore[key])
              ELSE Undefined

\* the cursors and the array after deleteCurrentItem's await db.delete
deleteCurrentItem_KnownToReading ==
    [items |-> IF reading + 1 \in 1..Len(items) THEN RemoveAt(items, reading)
               ELSE items,
     reading |-> reading - 1, known |-> reading - 1]
deleteCurrentItem ==
    [items |-> IF reading + 1 \in 1..Len(items) THEN RemoveAt(items, reading)
               ELSE items,
     reading |-> reading - 1, known |-> known - 1]

\* db.add(Store, item) fails on the unique index "url"
UrlTaken(store, url) == \E x \in DOMAIN store : store[x].url = url

\* the store and the array after pushItem(item): the id comes from the key
\* generator; a taken url makes db.add throw before items.push
pushItem_NoUnique(store, arr, id, item) ==
    [ok |-> TRUE,
     store |-> StorePut(store, [item EXCEPT !.id = id]),
     items |-> Append(arr, id), nextId |-> id + 1]
pushItem_Prepends(store, arr, id, item) ==
    IF UrlTaken(store, item.url)
    THEN [ok |-> FALSE, store |-> store, items |-> arr, nextId |-> id]
    ELSE [ok |-> TRUE,
          store |-> StorePut(store, [item EXCEPT !.id = id]),
          items |-> <<id>> \o arr, nextId |-> id + 1]
pushItem(store, arr, id, item) ==
    IF UrlTaken(store, item.url)
    THEN [ok |-> FALSE, store |-> store, items |-> arr, nextId |-> id]
    ELSE [ok |-> TRUE,
          store |-> StorePut(store, [item EXCEPT !.id = id]),
          items |-> Append(arr, id), nextId |-> id + 1]

\* Items.load: the scan of the store; known counts the read items
load_KnownZero(store) ==
    [items |-> Ascending(DOMAIN store),
     known |-> Cardinality({x \in DOMAIN store : store[x].read})]
load(store) ==
    [items |-> Ascending(DOMAIN store),
     known |-> Cardinality({x \in DOMAIN store : store[x].read}) - 1]

\* an item as a normalizer (parseJSONItem, ...) hands it to pushItem: the
\* normalizers set no feedId
NewItem(url) ==
    [id |-> 0, url |-> url, read |-> FALSE, feedId |-> 0,
     tags |-> <<>>, title |-> ""]

\* Math.random().toString(36): a url no other item has
RandomUrl(id) == 100 + id

\* variant A: oopsItem()
oopsItemA(id) ==
    [id |-> 0, url |-> RandomUrl(id), read |-> FALSE, feedId |-> 0,
     tags |-> <<>>, title |-> "Oops..."]

\* variant B: oopsItem(feed)
oopsItemB(id, feed) ==
    [id |-> 0, url |-> RandomUrl(id), read |-> FALSE, feedId |-> feed.id,
     tags |-> <<ErrorMarker>>, title |-> "Oops..."]

\* variant B: dummyItem(feed)
dummyItem(id, feed) ==
    [id |-> 0, url |-> RandomUrl(id), read |-> FALSE, feedId |-> feed.id,
     tags |-> <<ErrorMarker>>, title |-> "Errrr..."]

(***************************************************************************)
(* feeds.js: the feed registry (modelled from the specification)           *)
(***************************************************************************)
\* Feeds.first(): the feed at the front of the round-robin order, or nothing
FeedsFirst == IF feeds = <<>> THEN 0 ELSE Head(feeds)

FeedsRotate_Stays == feeds

\* Feeds.rotate(): the front feed moves to the back
FeedsRotate == IF feeds = <<>> THEN feeds ELSE Append(Tail(feeds), Head(feeds))

\* the unique index "feedUrl"
FeedUrlTaken(url) == \E x \in DOMAIN feedStore : feedStore[x].feedUrl = url

NewFeed(id, url) == [id |-> id, feedUrl |-> url, lastLoadTime |-> Epoch,
                     error |-> FALSE]

\* the feed's wait is over: feed.lastLoadTime <= now - MinReloadWait
Eligible(feed, t) == feed.lastLoadTime <= t - MinReloadWait

(***************************************************************************)
(* History: what was fetched, and when                                     *)
(***************************************************************************)
NoRun == [run |-> "none", at |-> 0, order0 |-> <<>>, elig0 |-> {},
          unread0 |-> 0, fetched |-> <<>>]

\* the documents a fetch may return: up to MaxDoc entries, each a url; the
\* first entry of a document is the newest
Docs == UNION {[1..n -> Urls] : n \in 0..MaxDoc}

(***************************************************************************)
(* Construction, the clock, a reload of the page                           *)
(***************************************************************************)
InitOp == [op |-> "init", arg |-> NoArg, st |-> "running", pc |-> "open",
           val |-> Undefined, ran |-> TRUE, loc |-> NoArg]

Init ==
    /\ variant \in {"A", "B"}
    /\ now = StartTime
    /\ db = "null"
    /\ itemStore = <<>>
    /\ nextId = 1
    /\ items = <<>>
    /\ reading = -1
    /\ known = -1
    /\ feedStore = <<>>
    /\ nextFeedId = 1
    /\ feeds = <<>>
    /\ chain = <<InitOp>>        \* let state = init()
    /\ fetches = <<>>
    /\ last = NoCall
    /\ poll = NoRun
    /\ events = <<>>

\* the clock advances by one tick, up to max
TickTo(max) ==
    /\ now < max
    /\ now' = now + 1
    /\ last' = NoCall
    /\ events' = <<>>
    /\ UNCHANGED <<variant, db, StoreVars, CursorVars, FeedVars, chain,
                   fetches>>
    /\ poll' = PollKept

Tick == TickTo(MaxTime)

\* the page is loaded again: the module state starts over, the stores stay
Restart ==
    /\ db' = "null"
    /\ items' = <<>>
    /\ reading' = -1
    /\ known' = -1
    /\ feeds' = <<>>
    /\ chain' = <<InitOp>>
    /\ fetches' = <<>>
    /\ last' = Call("restart", FALSE)
    /\ poll' = NoRun
    /\ events' = <<>>
    /\ UNCHANGED <<variant, now, StoreVars, feedStore, nextFeedId>>

\* init(): openDB, Feeds.load, Items.load
InitDone ==
    /\ At(1, "init", "open")
    /\ db' = "open"
    /\ feeds' = Ascending(DOMAIN feedStore)
    /\ LET l == load(itemStore) IN
        /\ items' = l.items
        /\ known' = l.known
        /\ reading' = l.known
        /\ events' = <<ItemsLoaded(Len(l.items), l.known), InitDoneEv>>
    /\ chain' = Settle(1, "resolved", Undefined)
    /\ last' = Call("load", TRUE)
    /\ UNCHANGED <<variant, now, StoreVars, feedStore, nextFeedId, fetches>>
    /\ poll' = PollKept

\* init(): openDB rejects; the store handle is never established
InitFail ==
    /\ At(1, "init", "open")
    /\ chain' = Settle(1, "rejected", ErrorVal("OpenError"))
    /\ last' = NoCall
    /\ events' = <<>>
    /\ UNCHANGED <<variant, now, db, StoreVars, CursorVars, FeedVars, fetches>>
    /\ poll' = PollKept

\* `await prev` throws: prev was rejected, and so is this promise, with the
\* same error and before any of its body ran
AwaitPrevThrows(i) ==
    /\ i \in 2..Len(chain)
    /\ chain[i].st = "pending"
    /\ AwaitPrev(i)
    /\ chain[i - 1].st = "rejected"
    /\ chain' = Trim([chain EXCEPT ![i] = [@ EXCEPT !.st = "rejected",
                                              !.val = chain[i - 1].val,
                                              !.arg = NoArg]])
    /\ last' = NoCall
    /\ events' = <<>>
    /\ UNCHANGED <<variant, now, db, StoreVars, CursorVars, FeedVars, fetches>>
    /\ poll' = PollKept

(***************************************************************************)
(* The client side functions                                               *)
(***************************************************************************)
\* variant B: the runs of the loader under way or about to be started
Loads ==
    Cardinality({i \in Unsettled :
        chain[i].op \in {"forwardItem", "currentItem", "getLoadCandidate",
                         "updateFeed"}})
    + Len(SelectSeq(fetches, LAMBDA x : x.k = "fetch"))

Called == /\ last' = NoCall
          /\ events' = <<>>
          /\ UNCHANGED <<variant, now, db, StoreVars, CursorVars, FeedVars,
                         fetches>>
    /\ poll' = PollKept

forwardItem(cap, loads) ==
    /\ IF variant = "A"
       THEN /\ Room(cap)
            /\ Submit(<<Op("forwardItem", NoArg), Op("markRead", NoArg),
                        Op("loadMore", NoArg)>>)
       ELSE /\ Room(cap)
            /\ Loads < loads
            /\ Submit(<<Op("forwardItem", NoArg), Op("markRead", NoArg)>>)
    /\ Called

backwardItem(cap) ==
    /\ Room(cap)
    /\ Submit(<<Op("backwardItem", NoArg)>>)
    /\ Called

deleteItem(cap) ==
    /\ Room(cap)
    /\ Submit(<<Op("deleteItem", NoArg)>>)
    /\ Called

currentItem(cap, loads) ==
    /\ IF variant = "A"
       THEN /\ Room(cap)
            /\ Submit(<<Op("currentItem", NoArg), Op("loadMore", NoArg)>>)
       ELSE /\ Room(cap)
            /\ Loads < loads
            /\ Submit(<<Op("currentItem", NoArg)>>)
    /\ Called

\* the feed ids the pending subscriptions may still take from the generator
PendingSubs ==
    Cardinality({i \in Unsettled : chain[i].op \in {"subscribe", "addFeed"}})
    + Len(SelectSeq(fetches, LAMBDA x : x.k = "sanitize"))

subscribe(cap, url) ==
    /\ nextFeedId + PendingSubs <= MaxFeeds
    /\ IF variant = "A"
       THEN /\ Room(cap)
            /\ Submit(<<Op("subscribe", [url |-> url]), Op("loadMore", NoArg)>>)
       ELSE /\ Room(cap)
            /\ Submit(<<Op("subscribe", [url |-> url])>>)
    /\ Called

unsubscribe(cap, id) ==
    /\ Room(cap)
    /\ Submit(<<Op("unsubscribe", [id |-> id])>>)
    /\ Called

shutdown(cap) ==
    /\ Room(cap)
    /\ Submit(<<Op("shutdown", NoArg)>>)
    /\ Called

(***************************************************************************)
(* The callback side: the cursor operations                                *)
(***************************************************************************)
GetCurrentItem_First(i, r) ==
    IF r < 0 THEN Settle(i, "resolved", Null)
    ELSE IF db = "null" THEN Settle(i, "rejected", ErrorVal("TypeError"))
    ELSE Suspend(i, "get", [key |-> IF items # <<>> THEN items[1] ELSE 0])

\* Items.getCurrentItem(db) at the end of cb_xxxItem, the cursor at r:
\* db.get on the closed handle throws, else the promise waits for the store
GetCurrentItem(i, r) ==
    IF r < 0 THEN Settle(i, "resolved", Null)
    ELSE IF db = "null" THEN Settle(i, "rejected", ErrorVal("TypeError"))
    ELSE Suspend(i, "get", [key |-> IF r + 1 \in 1..Len(items)
                                    THEN items[r + 1] ELSE 0])

\* variant B: cb_currentItem calls Loader.load() after the item is there
cb_currentItem(i) ==
    /\ CanStart(i, "currentItem")
    /\ IF variant = "B" /\ reading < 0
       THEN chain' = GetCurrentItem(i, reading) \o <<Op("getLoadCandidate", NoArg)>>
       ELSE chain' = GetCurrentItem(i, reading)
    /\ last' = NoCall
    /\ events' = <<>>
    /\ UNCHANGED <<variant, now, db, StoreVars, CursorVars, FeedVars, fetches>>
    /\ poll' = PollKept

cb_forwardItem(i) ==
    /\ CanStart(i, "forwardItem")
    /\ LET f == forwardCursor IN
        /\ reading' = f.reading
        /\ known' = f.known
        /\ last' = Call("forwardCursor", f.ret)
        /\ IF ~f.ret
           THEN /\ events' = <<Emit("warning", "Already at the end")>>
                /\ chain' = Settle(i, "resolved", Null)
           ELSE /\ events' = <<>>
                /\ chain' = GetCurrentItem(i, f.reading)
    /\ UNCHANGED <<variant, now, db, StoreVars, items, FeedVars, fetches>>
    /\ poll' = PollKept

cb_backwardItem(i) ==
    /\ CanStart(i, "backwardItem")
    /\ LET b == backwardCursor IN
        /\ reading' = b.reading
        /\ last' = Call("backwardCursor", b.ret)
        /\ IF ~b.ret
           THEN /\ events' = <<Emit("warning", "Already at the beginning")>>
                /\ chain' = Settle(i, "resolved", Null)
           ELSE /\ events' = <<>>
                /\ chain' = GetCurrentItem(i, b.reading)
    /\ UNCHANGED <<variant, now, db, StoreVars, items, known, FeedVars,
                   fetches>>
    /\ poll' = PollKept

\* db.get settles; in variant B cb_currentItem and cb_forwardItem then call
\* Loader.load(), which asks for a load candidate
GetItemDone(i) ==
    /\ \E op \in {"currentItem", "forwardItem", "backwardItem"} : At(i, op, "get")
    /\ IF variant = "B" /\ chain[i].op # "backwardItem"
       THEN chain' = Settle(i, "resolved", DbGet(chain[i].loc.key))
                        \o <<Op("getLoadCandidate", NoArg)>>
       ELSE chain' = Settle(i, "resolved", DbGet(chain[i].loc.key))
    /\ last' = NoCall
    /\ events' = <<>>
    /\ UNCHANGED <<variant, now, db, StoreVars, CursorVars, FeedVars, fetches>>
    /\ poll' = PollKept

cb_deleteItem(i) ==
    /\ CanStart(i, "deleteItem")
    /\ IF reading < 0
       THEN /\ chain' = Settle(i, "resolved", BoolVal(FALSE))
            /\ last' = Call("deleteCurrentItem", FALSE)
       ELSE /\ last' = NoCall
            /\ IF db = "null"
               THEN chain' = Settle(i, "rejected", ErrorVal("TypeError"))
               ELSE chain' = Suspend(i, "delete", [key |-> ItemAt(reading)])
    /\ events' = <<>>
    /\ UNCHANGED <<variant, now, db, StoreVars, CursorVars, FeedVars, fetches>>
    /\ poll' = PollKept

\* await db.delete is over: the array is spliced and both cursors step back
DeleteDone(i) ==
    /\ At(i, "deleteItem", "delete")
    /\ itemStore' = StoreDelete(itemStore, chain[i].loc.key)
    /\ LET d == deleteCurrentItem IN
        /\ items' = d.items
        /\ reading' = d.reading
        /\ known' = d.known
    /\ chain' = Settle(i, "resolved", BoolVal(TRUE))
    /\ last' = Call("deleteCurrentItem", TRUE)
    /\ events' = <<>>
    /\ UNCHANGED <<variant, now, db, nextId, FeedVars, fetches>>
    /\ poll' = PollKept

\* let item = await prev; if (item) await Items.markRead(db, item)
cb_markRead(i) ==
    /\ CanStart(i, "markRead")
    /\ LET v == chain[i - 1].val IN
        IF v.k # "item" THEN chain' = Settle(i, "resolved", Undefined)
        ELSE IF v.item.read THEN chain' = Settle(i, "resolved", Undefined)
        ELSE IF db = "null"
             THEN chain' = Settle(i, "rejected", ErrorVal("TypeError"))
        ELSE chain' = Suspend(i, "put", [item |-> [v.item EXCEPT !.read = TRUE]])
    /\ last' = NoCall
    /\ events' = <<>>
    /\ UNCHANGED <<variant, now, db, StoreVars, CursorVars, FeedVars, fetches>>
    /\ poll' = PollKept

MarkReadDone_NoPut(i) ==
    /\ At(i, "markRead", "put")
    /\ chain' = Settle(i, "resolved", Undefined)
    /\ last' = Call("markRead", TRUE)
    /\ events' = <<>>
    /\ UNCHANGED <<variant, now, db, StoreVars, CursorVars, FeedVars, fetches>>
    /\ poll' = PollKept

\* await db.put(Store, item) is over
MarkReadDone(i) ==
    /\ At(i, "markRead", "put")
    /\ itemStore' = StorePut(itemStore, chain[i].loc.item)
    /\ chain' = Settle(i, "resolved", Undefined)
    /\ last' = Call("markRead", TRUE)
    /\ events' = <<>>
    /\ UNCHANGED <<variant, now, db, nextId, CursorVars, FeedVars, fetches>>
    /\ poll' = PollKept

cb_shutdown(i) ==
    /\ CanStart(i, "shutdown")
    /\ IF db = "null"
       THEN chain' = Settle(i, "rejected", ErrorVal("TypeError"))
       ELSE chain' = Suspend(i, "close", NoArg)
    /\ last' = NoCall
    /\ events' = <<>>
    /\ UNCHANGED <<variant, now, db, StoreVars, CursorVars, FeedVars, fetches>>
    /\ poll' = PollKept

\* await db.close() is over
ShutdownDone(i) ==
    /\ At(i, "shutdown", "close")
    /\ db' = "null"
    /\ chain' = Settle(i, "resolved", Undefined)
    /\ last' = NoCall
    /\ events' = <<ShutDownEv>>
    /\ UNCHANGED <<variant, now, StoreVars, CursorVars, FeedVars, fetches>>
    /\ poll' = PollKept

(***************************************************************************)
(* The callback side: subscribe and unsubscribe                            *)
(***************************************************************************)
\* variant A: await Feeds.sanitize(url); variant B: Loader.subscribe(url),
\* which sanitizes the url away from the chain
cb_subscribe(i) ==
    /\ CanStart(i, "subscribe")
    /\ IF variant = "A"
       THEN /\ chain' = Suspend(i, "sanitize", chain[i].arg)
            /\ fetches' = fetches
       ELSE /\ chain' = Settle(i, "resolved", Undefined)
            /\ fetches' = Append(fetches, [k |-> "sanitize", url |-> chain[i].arg.url])
    /\ last' = NoCall
    /\ events' = <<>>
    /\ UNCHANGED <<variant, now, db, StoreVars, CursorVars, FeedVars>>
    /\ poll' = PollKept

\* variant A: Feeds.sanitize threw a string or a TypeError: the url is no feed
SanitizeInvalid(i) ==
    /\ At(i, "subscribe", "sanitize")
    /\ chain' = Settle(i, "resolved", Undefined)
    /\ events' = <<Emit("error", "is not valid")>>
    /\ last' = NoCall
    /\ UNCHANGED <<variant, now, db, StoreVars, CursorVars, FeedVars, fetches>>
    /\ poll' = PollKept

\* variant A: Feeds.sanitize threw anything else: cb_subscribe throws it on
SanitizeThrows(i) ==
    /\ At(i, "subscribe", "sanitize")
    /\ chain' = Settle(i, "rejected", ErrorVal("Error"))
    /\ events' = <<>>
    /\ last' = NoCall
    /\ UNCHANGED <<variant, now, db, StoreVars, CursorVars, FeedVars, fetches>>
    /\ poll' = PollKept

\* variant A: the url is a feed; Feeds.addFeed(db, feed) is called
SanitizeDone(i) ==
    /\ At(i, "subscribe", "sanitize")
    /\ IF db = "null"
       THEN chain' = Settle(i, "rejected", ErrorVal("TypeError"))
       ELSE chain' = Suspend(i, "add", chain[i].loc)
    /\ events' = <<>>
    /\ last' = NoCall
    /\ UNCHANGED <<variant, now, db, StoreVars, CursorVars, FeedVars, fetches>>
    /\ poll' = PollKept

\* variant A: await Feeds.addFeed is over. A DOMException is caught and
\* reported, and the function goes on to its last statement
AddFeedDoneA_Rethrows(i) ==
    /\ At(i, "subscribe", "add")
    /\ LET url == chain[i].loc.url IN
        IF FeedUrlTaken(url)
        THEN /\ events' = <<>>
             /\ last' = Call("addFeed", FALSE)
             /\ chain' = Settle(i, "rejected", ErrorVal("DOMException"))
             /\ UNCHANGED FeedVars
        ELSE /\ feedStore' = StorePut(feedStore, NewFeed(nextFeedId, url))
             /\ nextFeedId' = nextFeedId + 1
             /\ feeds' = Append(feeds, nextFeedId)
             /\ events' = <<Emit("info", "is now subscribed")>>
             /\ last' = Call("addFeed", TRUE)
             /\ chain' = Settle(i, "resolved", Undefined)
    /\ UNCHANGED <<variant, now, db, StoreVars, CursorVars, fetches>>
    /\ poll' = PollKept

AddFeedDoneA(i) ==
    /\ At(i, "subscribe", "add")
    /\ LET url == chain[i].loc.url IN
        IF FeedUrlTaken(url)
        THEN /\ events' = <<Emit("error", "is already subscribed"),
                            Emit("info", "is now subscribed")>>
             /\ last' = Call("addFeed", FALSE)
             /\ UNCHANGED FeedVars
        ELSE /\ feedStore' = StorePut(feedStore, NewFeed(nextFeedId, url))
             /\ nextFeedId' = nextFeedId + 1
             /\ feeds' = Append(feeds, nextFeedId)
             /\ events' = <<Emit("info", "is now subscribed")>>
             /\ last' = Call("addFeed", TRUE)
    /\ chain' = Settle(i, "resolved", Undefined)
    /\ UNCHANGED <<variant, now, db, StoreVars, CursorVars, fetches>>
    /\ poll' = PollKept

cb_unsubscribe(i) ==
    /\ CanStart(i, "unsubscribe")
    /\ IF db = "null"
       THEN chain' = Settle(i, "rejected", ErrorVal("TypeError"))
       ELSE chain' = Suspend(i, "remove", chain[i].arg)
    /\ events' = <<>>
    /\ last' = NoCall
    /\ UNCHANGED <<variant, now, db, StoreVars, CursorVars, FeedVars, fetches>>
    /\ poll' = PollKept

\* await Feeds.removeFeed is over
RemoveFeedDone(i) ==
    /\ At(i, "unsubscribe", "remove")
    /\ LET id == chain[i].loc.id IN
        IF id \in DOMAIN feedStore
        THEN /\ feedStore' = StoreDelete(feedStore, id)
             /\ feeds' = SelectSeq(feeds, LAMBDA f : f # id)
             /\ events' = <<Emit("info", "Feed unsubscribed")>>
             /\ last' = Call("removeFeed", TRUE)
        ELSE /\ events' = <<Emit("error", "Feed not found")>>
             /\ last' = Call("removeFeed", FALSE)
             /\ UNCHANGED <<feedStore, feeds>>
    /\ chain' = Settle(i, "resolved", Undefined)
    /\ UNCHANGED <<variant, now, db, StoreVars, CursorVars, nextFeedId,
                   fetches>>
    /\ poll' = PollKept

(***************************************************************************)
(* Variant A: cb_loadMore, loadMore, loadFeed                              *)
(***************************************************************************)
shouldLoadMore_Always(arr, k) == TRUE
shouldLoadMore(arr, k) == UnreadOf(arr, k) < WaterMark

\* one turn of the do-while of loadMore up to its first await, the order of
\* the feeds being fs: no feed ends the loop, else loadFeed(feedId) starts
\* with await Feeds.get(db, feedId)
LoadMoreTurn(i, fs) ==
    IF fs = <<>> THEN Settle(i, "resolved", Undefined)
    ELSE IF db = "null" THEN Settle(i, "rejected", ErrorVal("TypeError"))
    ELSE Suspend(i, "feed", [feedId |-> Head(fs), now0 |-> now])

\* whether LoadMoreTurn leaves the loop
TurnEnds(fs) == fs = <<>> \/ db = "null"

cb_loadMore(i) ==
    /\ CanStart(i, "loadMore")
    /\ IF shouldLoadMore(items, known)
       THEN /\ chain' = LoadMoreTurn(i, feeds)
            /\ poll' = [run |-> IF TurnEnds(feeds) THEN "done" ELSE "running",
                        at |-> now,
                        order0 |-> feeds,
                        elig0 |-> {f \in Range(feeds) : f \in DOMAIN feedStore
                                      /\ Eligible(feedStore[f], now)},
                        unread0 |-> unreadCount,
                        fetched |-> <<>>]
       ELSE /\ chain' = Settle(i, "resolved", Undefined)
            /\ poll' = PollKept
    /\ last' = NoCall
    /\ events' = <<>>
    /\ UNCHANGED <<variant, now, db, StoreVars, CursorVars, FeedVars, fetches>>

\* loadFeed: await Feeds.get is over. Inside its wait the feed is not
\* loaded, num stays -1 and the loop ends; else Feeds.loadItems fetches it
LoadFeedGot_NoWait(i) ==
    /\ At(i, "loadMore", "feed")
    /\ LET fid == chain[i].loc.feedId IN
        IF fid \notin DOMAIN feedStore
        THEN /\ chain' = Settle(i, "rejected", ErrorVal("TypeError"))
             /\ poll' = [poll EXCEPT !.run = "done"]
        ELSE /\ chain' = Suspend(i, "fetch", [feed |-> feedStore[fid]])
             /\ poll' = [poll EXCEPT !.fetched = Append(@, fid)]
    /\ last' = NoCall
    /\ events' = <<>>
    /\ UNCHANGED <<variant, now, db, StoreVars, CursorVars, FeedVars, fetches>>

LoadFeedGot(i) ==
    /\ At(i, "loadMore", "feed")
    /\ LET fid == chain[i].loc.feedId IN
        IF fid \notin DOMAIN feedStore
        THEN /\ chain' = Settle(i, "rejected", ErrorVal("TypeError"))
             /\ poll' = [poll EXCEPT !.run = "done"]
        ELSE IF Eligible(feedStore[fid], chain[i].loc.now0)
        THEN /\ chain' = Suspend(i, "fetch", [feed |-> feedStore[fid]])
             /\ poll' = [poll EXCEPT !.fetched = Append(@, fid)]
        ELSE /\ chain' = Settle(i, "resolved", Undefined)
             /\ poll' = [poll EXCEPT !.run = "done"]
    /\ last' = NoCall
    /\ events' = <<>>
    /\ UNCHANGED <<variant, now, db, StoreVars, CursorVars, FeedVars, fetches>>

\* the end of loadFeed after the last push, the array being arr, and the
\* test of the do-while
LoadFeedEnd(i, arr, oldCount) ==
    LET num == Len(arr) - oldCount IN
    /\ feeds' = FeedsRotate
    /\ events' = IF num > 0 THEN <<ItemsLoaded(Len(arr), reading)>> ELSE <<>>
    /\ IF num >= 0 /\ shouldLoadMore(arr, known)
       THEN /\ chain' = LoadMoreTurn(i, FeedsRotate)
            /\ poll' = [poll EXCEPT
                          !.run = IF TurnEnds(FeedsRotate) THEN "done" ELSE @]
       ELSE /\ chain' = Settle(i, "resolved", Undefined)
            /\ poll' = [poll EXCEPT !.run = "done"]

\* Feeds.loadItems(db, feed) is over (modelled from the specification): the
\* feed's lastLoadTime is set and stored, and the entries of the document
\* come back as items, or the one item of oopsItem() when the fetch failed
LoadItemsDone(i, doc, failed) ==
    /\ At(i, "loadMore", "fetch")
    /\ failed => doc = <<>>
    /\ LET feed == chain[i].loc.feed
           newItems == IF failed THEN <<oopsItemA(nextId)>>
                       ELSE [n \in 1..Len(doc) |-> NewItem(doc[n])]
       IN
        /\ nextId + Len(newItems) - 1 <= MaxId
        /\ feedStore' = IF feed.id \in DOMAIN feedStore
                        THEN [feedStore EXCEPT ![feed.id].lastLoadTime = now]
                        ELSE feedStore
        /\ IF newItems = <<>>
           THEN LoadFeedEnd(i, items, Len(items))
           ELSE /\ chain' = Suspend(i, "push", [newItems |-> newItems,
                                                idx |-> Len(newItems),
                                                oldCount |-> Len(items)])
                /\ events' = <<>>
                /\ UNCHANGED <<feeds, poll>>
    /\ last' = NoCall
    /\ UNCHANGED <<variant, now, db, StoreVars, CursorVars, nextFeedId, fetches>>

\* await Items.pushItem(db, newItems[i]) is over, a DOMException is caught
LoadFeedPush(i) ==
    /\ At(i, "loadMore", "push")
    /\ LET loc == chain[i].loc
           p == pushItem(itemStore, items, nextId, loc.newItems[loc.idx])
       IN
        /\ itemStore' = p.store
        /\ items' = p.items
        /\ nextId' = p.nextId
        /\ last' = Call("pushItem", p.ok)
        /\ IF loc.idx > 1
           THEN /\ chain' = Suspend(i, "push", [loc EXCEPT !.idx = @ - 1])
                /\ events' = <<>>
                /\ UNCHANGED <<feeds, poll>>
           ELSE LoadFeedEnd(i, p.items, loc.oldCount)
    /\ UNCHANGED <<variant, now, db, reading, known, feedStore, nextFeedId,
                   fetches>>

(***************************************************************************)
(* Variant B: cb_getLoadCandidate, cb_updateFeed, cb_addFeed, and the      *)
(* loader that calls them (the loader is modelled from the specification)  *)
(***************************************************************************)
\* fetches without its n-th element
Without(s, n) == [m \in 1..(Len(s) - 1) |-> IF m < n THEN s[m] ELSE s[m + 1]]

\* the ids cb_updateFeed(feed, items) may take from the generator: one per
\* item, one more for the oops item or the dummy item
Need(feed, n) ==
    n + (IF feed.error \/ feed.lastLoadTime < now - MaxKeptPeriod THEN 1 ELSE 0)

RECURSIVE SumNeed(_)
SumNeed(S) ==
    IF S = {} THEN 0
    ELSE LET i == CHOOSE x \in S : TRUE
         IN  Need(chain[i].arg.feed, Len(chain[i].arg.items)) + SumNeed(S \ {i})

\* the ids the unsettled calls of cb_updateFeed may still take
Reserved == SumNeed({i \in Unsettled : chain[i].op = "updateFeed"})

cb_getLoadCandidate(i) ==
    /\ CanStart(i, "getLoadCandidate")
    /\ IF unreadCount >= WaterMark \/ FeedsFirst = 0
       THEN chain' = Settle(i, "resolved", Null)
       ELSE IF db = "null"
       THEN chain' = Settle(i, "rejected", ErrorVal("TypeError"))
       ELSE chain' = Suspend(i, "feed", [feedId |-> FeedsFirst, now0 |-> now])
    /\ last' = NoCall
    /\ events' = <<>>
    /\ UNCHANGED <<variant, now, db, StoreVars, CursorVars, FeedVars, fetches>>
    /\ poll' = PollKept

\* await Feeds.get is over. A feed past its wait is rotated to the back and
\* returned to the loader, which starts to fetch it
GetCandidateDone(i) ==
    /\ At(i, "getLoadCandidate", "feed")
    /\ LET fid == chain[i].loc.feedId IN
        IF fid \notin DOMAIN feedStore
        THEN /\ chain' = Settle(i, "rejected", ErrorVal("TypeError"))
             /\ UNCHANGED <<feeds, fetches>>
        ELSE IF ~Eligible(feedStore[fid], chain[i].loc.now0)
        THEN /\ chain' = Settle(i, "resolved", Null)
             /\ UNCHANGED <<feeds, fetches>>
        ELSE /\ feeds' = FeedsRotate
             /\ chain' = Settle(i, "resolved", FeedVal(feedStore[fid]))
             /\ fetches' = Append(fetches, [k |-> "fetch", feed |-> feedStore[fid]])
    /\ last' = Call("getLoadCandidate", TRUE)
    /\ events' = <<>>
    /\ UNCHANGED <<variant, now, db, StoreVars, CursorVars, feedStore,
                   nextFeedId, poll>>

\* the loader's fetch of a feed is over: Model.updateFeed(feed, items), the
\* feed carrying the error when the fetch failed
LoaderFetched(n, doc, failed) ==
    /\ n \in 1..Len(fetches)
    /\ fetches[n].k = "fetch"
    /\ failed => doc = <<>>
    /\ nextId - 1 + Reserved
         + Need([fetches[n].feed EXCEPT !.error = failed], Len(doc)) <= MaxId
    /\ LET feed == fetches[n].feed IN
        /\ chain' = chain \o
              <<Op("updateFeed",
                   [feed |-> [feed EXCEPT !.error = failed],
                    items |-> [m \in 1..Len(doc) |-> NewItem(doc[m])]])>>
    /\ fetches' = Without(fetches, n)
    /\ last' = NoCall
    /\ events' = <<>>
    /\ UNCHANGED <<variant, now, db, StoreVars, CursorVars, FeedVars, poll>>

\* cb_updateFeed after its last push, the array being arr: the oops item of
\* a failed feed, the dummy item of a silent one, or the feed is stored
AfterPushes(i, arr, loc) ==
    LET num == Len(arr) - loc.oldCount IN
    IF loc.feed.error
    THEN /\ events' = <<Emit("error", "faild to load")>>
         /\ chain' = Suspend(i, "oops", [loc EXCEPT !.num = num])
    ELSE IF num = 0 /\ loc.feed.lastLoadTime < loc.now0 - MaxKeptPeriod
    THEN /\ events' = <<>>
         /\ chain' = Suspend(i, "dummy", [loc EXCEPT !.num = num])
    ELSE /\ events' = <<>>
         /\ chain' = Suspend(i, "store",
                [loc EXCEPT !.num = num, !.feed.lastLoadTime = loc.now0])

cb_updateFeed(i) ==
    /\ CanStart(i, "updateFeed")
    /\ LET loc == [feed |-> chain[i].arg.feed, items |-> chain[i].arg.items,
                   idx |-> Len(chain[i].arg.items), oldCount |-> Len(items),
                   now0 |-> now, num |-> 0]
       IN IF loc.items = <<>>
          THEN AfterPushes(i, items, loc)
          ELSE /\ events' = <<>>
               /\ IF db = "null"
                  THEN chain' = Settle(i, "rejected", ErrorVal("TypeError"))
                  ELSE chain' = Suspend(i, "push", loc)
    /\ last' = NoCall
    /\ UNCHANGED <<variant, now, db, StoreVars, CursorVars, FeedVars, fetches>>
    /\ poll' = PollKept

\* await Items.pushItem(db, items[i]) is over, a DOMException is caught
UpdateFeedPush(i) ==
    /\ At(i, "updateFeed", "push")
    /\ LET loc == chain[i].loc
           p == pushItem(itemStore, items, nextId, loc.items[loc.idx])
       IN
        /\ itemStore' = p.store
        /\ items' = p.items
        /\ nextId' = p.nextId
        /\ last' = Call("pushItem", p.ok)
        /\ IF loc.idx > 1
           THEN /\ chain' = Suspend(i, "push", [loc EXCEPT !.idx = @ - 1])
                /\ events' = <<>>
           ELSE AfterPushes(i, p.items, loc)
    /\ UNCHANGED <<variant, now, db, reading, known, FeedVars, fetches>>
    /\ poll' = PollKept

\* await Items.pushItem(db, oopsItem(feed)) or dummyItem(feed) is over; this
\* push is outside any try
UpdateFeedExtra(i) ==
    /\ \E pc \in {"oops", "dummy"} : At(i, "updateFeed", pc)
    /\ LET loc == chain[i].loc
           item == IF chain[i].pc = "oops" THEN oopsItemB(nextId, loc.feed)
                   ELSE dummyItem(nextId, loc.feed)
           p == pushItem(itemStore, items, nextId, item)
       IN
        /\ itemStore' = p.store
        /\ items' = p.items
        /\ nextId' = p.nextId
        /\ last' = Call("pushItem", p.ok)
        /\ IF p.ok
           THEN chain' = Suspend(i, "store",
                    [loc EXCEPT !.num = @ + 1, !.feed.error = FALSE,
                                !.feed.lastLoadTime = loc.now0])
           ELSE chain' = Settle(i, "rejected", ErrorVal("DOMException"))
    /\ events' = <<>>
    /\ UNCHANGED <<variant, now, db, reading, known, FeedVars, fetches>>
    /\ poll' = PollKept

\* await Feeds.updateFeed (the whole record) or Feeds.touchFeed (only
\* lastLoadTime) is over; then Loader.load() asks for the next candidate
UpdateFeedStored(i) ==
    /\ At(i, "updateFeed", "store")
    /\ LET loc == chain[i].loc IN
        /\ feedStore' =
              IF loc.num > 0 THEN StorePut(feedStore, loc.feed)
              ELSE IF loc.feed.id \in DOMAIN feedStore
              THEN [feedStore EXCEPT ![loc.feed.id].lastLoadTime = loc.feed.lastLoadTime]
              ELSE feedStore
        /\ events' = IF loc.num > 0 THEN <<ItemsLoaded(Len(items), reading)>>
                     ELSE <<>>
    /\ chain' = Settle(i, "resolved", Undefined) \o <<Op("getLoadCandidate", NoArg)>>
    /\ last' = Call("updateFeed", TRUE)
    /\ UNCHANGED <<variant, now, db, StoreVars, CursorVars, nextFeedId, feeds,
                   fetches>>
    /\ poll' = PollKept

\* Loader.subscribe(url) has looked at the url: Model.addFeed(feed), the
\* feed carrying the error when the url is no feed
LoaderSanitized(n, invalid) ==
    /\ n \in 1..Len(fetches)
    /\ fetches[n].k = "sanitize"
    /\ chain' = chain \o <<Op("addFeed", [url |-> fetches[n].url,
                                          error |-> invalid])>>
    /\ fetches' = Without(fetches, n)
    /\ last' = NoCall
    /\ events' = <<>>
    /\ UNCHANGED <<variant, now, db, StoreVars, CursorVars, FeedVars>>
    /\ poll' = PollKept

cb_addFeed(i) ==
    /\ CanStart(i, "addFeed")
    /\ IF chain[i].arg.error
       THEN /\ events' = <<Emit("error", "is not valid")>>
            /\ chain' = Settle(i, "resolved", Undefined)
       ELSE /\ events' = <<>>
            /\ IF db = "null"
               THEN chain' = Settle(i, "rejected", ErrorVal("TypeError"))
               ELSE chain' = Suspend(i, "add", chain[i].arg)
    /\ last' = NoCall
    /\ UNCHANGED <<variant, now, db, StoreVars, CursorVars, FeedVars, fetches>>
    /\ poll' = PollKept

\* await Feeds.addFeed is over; a DOMException is caught and reported
AddFeedDoneB(i) ==
    /\ At(i, "addFeed", "add")
    /\ LET url == chain[i].loc.url IN
        IF FeedUrlTaken(url)
        THEN /\ events' = <<Emit("error", "is already subscribed")>>
             /\ last' = Call("addFeed", FALSE)
             /\ UNCHANGED FeedVars
        ELSE /\ feedStore' = StorePut(feedStore, NewFeed(nextFeedId, url))
             /\ nextFeedId' = nextFeedId + 1
             /\ feeds' = Append(feeds, nextFeedId)
             /\ events' = <<Emit("info", "is now subscribed")>>
             /\ last' = Call("addFeed", TRUE)
    /\ chain' = Settle(i, "resolved", Undefined)
    /\ UNCHANGED <<variant, now, db, StoreVars, CursorVars, fetches>>
    /\ poll' = PollKept

(***************************************************************************)
(* The specifications                                                      *)
(***************************************************************************)
\* the steps of the callback side that both variants have
Steps(i) ==
    \/ AwaitPrevThrows(i)
    \/ cb_currentItem(i)
    \/ cb_forwardItem(i)
    \/ GetItemDone(i)
    \/ cb_markRead(i)
    \/ MarkReadDone(i)
    \/ cb_subscribe(i)

StepsA(i) ==
    \/ cb_backwardItem(i)
    \/ cb_deleteItem(i)
    \/ DeleteDone(i)
    \/ cb_shutdown(i)
    \/ ShutdownDone(i)
    \/ SanitizeInvalid(i)
    \/ SanitizeThrows(i)
    \/ SanitizeDone(i)
    \/ AddFeedDoneA(i)
    \/ cb_unsubscribe(i)
    \/ RemoveFeedDone(i)
    \/ cb_loadMore(i)
    \/ LoadFeedGot(i)
    \/ LoadFeedPush(i)

StepsB(i) ==
    \/ cb_getLoadCandidate(i)
    \/ GetCandidateDone(i)
    \/ cb_updateFeed(i)
    \/ UpdateFeedPush(i)
    \/ UpdateFeedExtra(i)
    \/ UpdateFeedStored(i)
    \/ cb_addFeed(i)
    \/ AddFeedDoneB(i)

InitA == Init /\ variant = "A"
InitB == Init /\ variant = "B"

\* Variant A, the client calls made on an idle chain, on any feeds and
\* documents, over reloads of the page
Next ==
    \/ Tick
    \/ Restart
    \/ InitDone
    \/ InitFail
    \/ \E i \in 1..Len(chain) : Steps(i) \/ StepsA(i)
    \/ forwardItem(0, 0)
    \/ backwardItem(0)
    \/ deleteItem(0)
    \/ currentItem(0, 0)
    \/ \E url \in FeedUrls : subscribe(0, url)
    \/ \E id \in 1..MaxFeeds : unsubscribe(0, id)
    \/ shutdown(0)
    \/ \E i \in 1..Len(chain), doc \in Docs, failed \in BOOLEAN :
          LoadItemsDone(i, doc, failed)

Spec == InitA /\ [][Next]_vars

\* Variant A, the client calls made on a busy chain, on one feed url and
\* documents of at most one entry
QDocs == {d \in Docs : Len(d) <= 1}

NextQ ==
    \/ InitDone
    \/ InitFail
    \/ \E i \in 1..Len(chain) : Steps(i) \/ StepsA(i)
    \/ forwardItem(MaxPending, 0)
    \/ backwardItem(MaxPending)
    \/ deleteItem(MaxPending)
    \/ currentItem(MaxPending, 0)
    \/ subscribe(MaxPending, 1)
    \/ unsubscribe(MaxPending, 1)
    \/ shutdown(MaxPending)
    \/ \E i \in 1..Len(chain), doc \in QDocs, failed \in BOOLEAN :
          LoadItemsDone(i, doc, failed)

SpecQ == InitA /\ [][NextQ]_vars

\* Variant B: the loader at work between the client calls that start it
NextB ==
    \/ Tick
    \/ InitDone
    \/ InitFail
    \/ \E i \in 1..Len(chain) : Steps(i) \/ StepsB(i)
    \/ forwardItem(0, MaxLoads)
    \/ currentItem(0, MaxLoads)
    \/ \E url \in FeedUrls : subscribe(0, url)
    \/ \E n \in 1..Len(fetches), invalid \in BOOLEAN : LoaderSanitized(n, invalid)
    \/ \E n \in 1..Len(fetches), doc \in QDocs, failed \in BOOLEAN :
          LoaderFetched(n, doc, failed)

SpecB == InitB /\ [][NextB]_vars

\* Both variants side by side: the calls that start a poll, made on an idle
\* chain, with the steps of either variant
NextAB ==
    \/ NextB
    \/ \E i \in 1..Len(chain) : StepsA(i)
    \/ \E i \in 1..Len(chain), doc \in QDocs, failed \in BOOLEAN :
          LoadItemsDone(i, doc, failed)

SpecAB == Init /\ [][NextAB]_vars

\* Both variants over MaxRounds ticks of the clock, so that a feed is
\* polled, waits and is polled again while another feed is subscribed: the
\* feeds are subscribed and the current item is asked for on an idle chain,
\* every fetch returns a document of at most one entry
MaxRounds == 2

NextR ==
    \/ TickTo(StartTime + MaxRounds)
    \/ InitDone
    \/ \E i \in 1..Len(chain) : Steps(i) \/ StepsA(i) \/ StepsB(i)
    \/ currentItem(0, 1)
    \/ \E url \in FeedUrls : subscribe(0, url)
    \/ \E n \in 1..Len(fetches) : LoaderSanitized(n, FALSE)
    \/ \E n \in 1..Len(fetches), doc \in QDocs : LoaderFetched(n, doc, FALSE)
    \/ \E i \in 1..Len(chain), doc \in QDocs : LoadItemsDone(i, doc, FALSE)

SpecR == Init /\ [][NextR]_vars

\* Variant A, a first session: feeds are subscribed and read forward and
\* backward on an idle chain, the fetched documents having up to MaxEntries
\* entries with urls of their own
MaxEntries == 3
EntryUrls == 1..MaxEntries
LongDocs == UNION {[1..n -> EntryUrls] : n \in 0..MaxEntries}

StepsS(i) ==
    \/ cb_currentItem(i)
    \/ cb_forwardItem(i)
    \/ cb_backwardItem(i)
    \/ GetItemDone(i)
    \/ cb_markRead(i)
    \/ MarkReadDone(i)
    \/ cb_subscribe(i)
    \/ SanitizeInvalid(i)
    \/ SanitizeDone(i)
    \/ AddFeedDoneA(i)
    \/ cb_loadMore(i)
    \/ LoadFeedGot(i)
    \/ LoadFeedPush(i)

NextS ==
    \/ InitDone
    \/ \E i \in 1..Len(chain) : StepsS(i)
    \/ forwardItem(0, 0)
    \/ backwardItem(0)
    \/ currentItem(0, 0)
    \/ \E url \in FeedUrls : subscribe(0, url)
    \/ \E i \in 1..Len(chain), doc \in LongDocs : LoadItemsDone(i, doc, FALSE)

SpecS == InitA /\ [][NextS]_vars

\* Variant A under fairness: what is scheduled runs. Every step of the
\* callback side is a microtask or the completion of a store request, and
\* every fetch returns; the clock and the client are free
NextL ==
    \/ Tick
    \/ InitDone
    \/ \E i \in 1..Len(chain) : StepsS(i)
    \/ forwardItem(0, 0)
    \/ currentItem(0, 0)
    \/ \E url \in FeedUrls : subscribe(0, url)
    \/ \E i \in 1..Len(chain), doc \in Docs, failed \in BOOLEAN :
          LoadItemsDone(i, doc, failed)

SpecL ==
    /\ InitA
    /\ [][NextL]_vars
    /\ WF_vars(InitDone)
    /\ WF_vars(\E i \in 1..Len(chain) : StepsS(i))
    /\ WF_vars(\E i \in 1..Len(chain), doc \in Docs, failed \in BOOLEAN :
                  LoadItemsDone(i, doc, failed))

(***************************************************************************)
(* The normalizers: parseJSONItem, parseRSS2Item, parseATOMItem            *)
(***************************************************************************)
\* a string is the sequence of its pieces, so that '<p>' + text + '</p>' is
\* a concatenation; the empty string is <<>>
Str(s) == [k |-> "string", s |-> s]

\* if (v): a string that is not empty
Truthy(v) == v.k = "string" /\ v.s # <<>>

\* the function throws v
Throw(v) == [k |-> "throw", val |-> v]

\* a member of a JSON entry: undefined, "" or a text
JSONField(t) == {Undefined, Str(<<>>), Str(<<t>>)}

\* getXMLTextContent, getXMLTextAttribute: null when the selector finds no
\* element, else its text, which may be empty
XMLField(t) == {Null, Str(<<>>), Str(<<t>>)}

\* the entries, by the members the normalizers decide on (the dates, the
\* image and the title only pass through and are left out)
JSONEntries ==
    [content_html : JSONField("html"), content_text : JSONField("text"),
     url : JSONField("url"), tags : {Undefined, Str(<<"tag">>)}]
RSS2Entries ==
    [content : XMLField("encoded"), description : XMLField("description"),
     link : XMLField("link"), title : {Null, Str(<<"title">>)}]
ATOMEntries ==
    [content : XMLField("content"), summary : XMLField("summary"),
     link : XMLField("href"), alternate : XMLField("alternate")]

Paragraph(text) == <<"<p>">> \o text \o <<"</p>">>

\* the rest of parseJSONItem once contentHtml is set
JSONItemWith(json, html) ==
    IF Truthy(json.url)
    THEN ItemVal([contentHtml |-> html, url |-> json.url,
                  tags |-> IF Truthy(json.tags) THEN json.tags ELSE Str(<<>>)])
    ELSE Null

parseJSONItem_TextFirst(json) ==
    IF json.content_text.k # "undefined"
    THEN JSONItemWith(json, Str(Paragraph(json.content_text.s)))
    ELSE IF json.content_html.k # "undefined"
    THEN JSONItemWith(json, json.content_html)
    ELSE Null
parseJSONItem(json) ==
    IF json.content_html.k # "undefined"
    THEN JSONItemWith(json, json.content_html)
    ELSE IF json.content_text.k # "undefined"
    THEN JSONItemWith(json, Str(Paragraph(json.content_text.s)))
    ELSE Null

parseRSS2Item(elem) ==
    IF ~Truthy(elem.content) /\ ~Truthy(elem.description) THEN Null
    ELSE IF ~Truthy(elem.link) THEN Null
    ELSE ItemVal([contentHtml |-> IF Truthy(elem.content) THEN elem.content
                                  ELSE elem.description,
                  url |-> elem.link, tags |-> Str(<<>>)])

parseATOMItem(elem) ==
    IF ~Truthy(elem.content) /\ ~Truthy(elem.summary) THEN Throw(Null)
    ELSE IF ~Truthy(elem.alternate) /\ ~Truthy(elem.link) THEN Null
    ELSE ItemVal([contentHtml |-> IF Truthy(elem.content) THEN elem.content
                                  ELSE Str(Paragraph(elem.summary.s)),
                  url |-> IF Truthy(elem.alternate) THEN elem.alternate
                          ELSE elem.link,
                  tags |-> Str(<<>>)])

\* one entry of a fetched document is at hand
Fetched(k, entry) == [k |-> k, entry |-> entry]

InitN ==
    /\ variant = "A"
    /\ now = StartTime
    /\ db = "null"
    /\ itemStore = <<>>
    /\ nextId = 1
    /\ items = <<>>
    /\ reading = -1
    /\ known = -1
    /\ feedStore = <<>>
    /\ nextFeedId = 1
    /\ feeds = <<>>
    /\ chain = <<InitOp>>
    /\ fetches \in {<<Fetched("json", e)>> : e \in JSONEntries}
                  \cup {<<Fetched("rss2", e)>> : e \in RSS2Entries}
                  \cup {<<Fetched("atom", e)>> : e \in ATOMEntries}
    /\ last = NoCall
    /\ poll = NoRun
    /\ events = <<>>

\* the normalizer of the document's format is applied to the entry
Parsed(fn, ret) ==
    /\ last = NoCall
    /\ last' = Call(fn, ret)
    /\ UNCHANGED <<variant, now, db, StoreVars, CursorVars, FeedVars, chain,
                   fetches, poll, events>>

ParseJSON ==
    /\ fetches[1].k = "json"
    /\ Parsed("parseJSONItem", parseJSONItem(fetches[1].entry))

ParseRSS2 ==
    /\ fetches[1].k = "rss2"
    /\ Parsed("parseRSS2Item", parseRSS2Item(fetches[1].entry))

ParseATOM ==
    /\ fetches[1].k = "atom"
    /\ Parsed("parseATOMItem", parseATOMItem(fetches[1].entry))

NextN == ParseJSON \/ ParseRSS2 \/ ParseATOM

SpecN == InitN /\ [][NextN]_vars

(***************************************************************************)
(* The properties                                                          *)
(***************************************************************************)
\* C1: the body of a call never starts before every call submitted before
\* it has settled, whatever the timing of the awaits inside the bodies; so
\* the store mutations, the cursor changes and the events come in the order
\* in which the calls were submitted.
C1_SubmissionOrder ==
    \A i \in 1..Len(chain) :
        chain[i].st # "pending" =>
            \A j \in 1..(i - 1) : chain[j].st \in Settled

\* C1, its case: a body waits for the store while two later calls are queued
C1_QueuedBehindDelete ==
    /\ Len(chain) >= 3
    /\ At(1, "deleteItem", "delete")
    /\ chain[2].st = "pending"
    /\ chain[3].st = "pending"

\* C2 as the specification states it: a call is rejected only by a fault of
\* its own body, never because an earlier call was rejected; the one
\* exception is a failed initialization. (`await prev` throws the earlier
\* rejection again, so this does not hold.)
C2_NotPoisoned ==
    \A i \in 1..Len(chain) :
        chain[i].st = "rejected" =>
            chain[i].ran \/ chain[i].val = ErrorVal("OpenError")

\* C3: at most one body is executing at any time; a poll of variant B
\* (getLoadCandidate, updateFeed) is a promise of the chain, and while a
\* body is between two of its steps no other body has started.
C3_OneBody ==
    \A i, j \in 1..Len(chain) :
        (chain[i].st = "running" /\ chain[j].st = "running") => i = j

\* C3, its case: the loader's fetch comes back while cb_forwardItem waits
\* for the store, and cb_updateFeed is queued behind it
C3_PollBehindCursorOp ==
    \E i, j \in 1..Len(chain) :
        /\ i < j
        /\ At(i, "forwardItem", "get")
        /\ chain[j].op = "updateFeed"
        /\ chain[j].st = "pending"

\* C4: reading stays within -1 .. length - 1; forwardCursor with reading at
\* the last index, and backwardCursor with reading at 0 or below, return
\* false and change neither the array nor the cursors.
C4_ReadingInRange ==
    [][ /\ reading' \in -1..(Len(items') - 1)
        /\ (last'.fn = "forwardCursor" /\ reading >= Len(items) - 1) =>
              (~last'.ret /\ UNCHANGED <<items, reading, known>>)
        /\ (last'.fn = "backwardCursor" /\ reading <= 0) =>
              (~last'.ret /\ UNCHANGED <<items, reading, known>>) ]_vars

\* C4, its case: forwardCursor has returned false at the end of a list of
\* two items or more
C4_ForwardAtEnd ==
    /\ last = Call("forwardCursor", FALSE)
    /\ reading = Len(items) - 1
    /\ reading >= 1

\* C5: outside load, known goes down only in a deleteCurrentItem that
\* returns true, and then by exactly one; it goes up only in a forwardCursor
\* whose new reading is beyond the old known, and then equals reading.
C5_KnownMonotone ==
    [][ last'.fn \notin {"load", "restart"} =>
          /\ known' < known =>
                (last' = Call("deleteCurrentItem", TRUE) /\ known' = known - 1)
          /\ known' > known =>
                (last' = Call("forwardCursor", TRUE) /\ reading' > known
                    /\ known' = reading') ]_vars

\* C5, its case: an item behind the known mark has been deleted
C5_DeletedBehindKnown ==
    /\ last = Call("deleteCurrentItem", TRUE)
    /\ known > reading

\* C6: unreadCount() is length() - known - 1 and is never negative.
C6_UnreadCount ==
    /\ unreadCount = length - knownCursor - 1
    /\ unreadCount >= 0

\* C6, its case: load has rebuilt the cursors from a store with read and
\* unread items
C6_LoadedWithRead ==
    /\ last = Call("load", TRUE)
    /\ known >= 0
    /\ unreadCount >= 1

\* C7: no two stored items have the same url; a push of a taken url is
\* rejected and changes neither the store, the id array nor the cursors,
\* and the poll that made it goes on with its remaining entries and is not
\* rejected.
C7_DuplicatePush ==
    [][ /\ \A x, y \in DOMAIN itemStore' :
              itemStore'[x].url = itemStore'[y].url => x = y
        /\ (last'.fn = "pushItem" /\ ~last'.ret) =>
              /\ UNCHANGED <<itemStore, nextId, items, reading, known>>
              /\ \A i \in 1..Len(chain) : At(i, "loadMore", "push") =>
                    /\ \A j \in 1..Len(chain') : chain'[j].st # "rejected"
                    /\ chain[i].loc.idx > 1 =>
                          \E j \in 1..Len(chain') :
                              /\ chain'[j].op = "loadMore"
                              /\ chain'[j].st = "running"
                              /\ chain'[j].pc = "push"
                              /\ chain'[j].loc.idx = chain[i].loc.idx - 1
      ]_vars

\* C7, its case: a push was rejected and the poll is at its next entry
C7_RejectedThenNext ==
    /\ last = Call("pushItem", FALSE)
    /\ Len(items) >= 1
    /\ \E i \in 1..Len(chain) : At(i, "loadMore", "push")

\* C8: deleteCurrentItem with reading at the last index takes the item out
\* of the store and out of the id array and leaves reading at the last
\* index of the shorter array; an id that has left the store never comes
\* back, neither into the store nor into the array, a scan by load included.
C8_DeleteLast ==
    [][ /\ (last' = Call("deleteCurrentItem", TRUE)
              /\ reading = Len(items) - 1) =>
              /\ ItemAt(reading) \notin DOMAIN itemStore'
              /\ ItemAt(reading) \notin Range(items')
              /\ Len(items') = Len(items) - 1
              /\ reading' = Len(items') - 1
        /\ \A id \in 1..MaxId :
              (id < nextId /\ id \notin DOMAIN itemStore) =>
                  (id \notin DOMAIN itemStore' /\ id \notin Range(items'))
      ]_vars

\* C8, its case: the last item of the list has been deleted and items are
\* left
C8_LastDeleted ==
    /\ last = Call("deleteCurrentItem", TRUE)
    /\ reading = Len(items) - 1
    /\ Len(items) >= 1

\* C9 as amended: with two feeds of which one is inside its wait, an open
\* store and a clock that stands still during the run, loadMore fetches the
\* feed whose wait is over, and only it, and moves it to the back when that
\* feed is at the front; when the feed inside its wait is at the front the
\* run ends with nothing fetched and the order as it was.
C9_FrontDecides ==
    (/\ poll.run = "done"
     /\ db = "open"
     /\ now = poll.at
     /\ Len(poll.order0) = 2
     /\ Cardinality(poll.elig0) = 1) =>
        IF poll.order0[1] \in poll.elig0
        THEN /\ poll.fetched = <<poll.order0[1]>>
             /\ feeds = <<poll.order0[2], poll.order0[1]>>
        ELSE /\ poll.fetched = <<>>
             /\ feeds = poll.order0

\* C9, its case: a run over two feeds, the front one past its wait, is over
C9_EligibleAtFront ==
    /\ poll.run = "done"
    /\ db = "open"
    /\ now = poll.at
    /\ Len(poll.order0) = 2
    /\ Cardinality(poll.elig0) = 1
    /\ poll.order0[1] \in poll.elig0
    /\ poll.fetched # <<>>

\* C9 as the specification states it: the feed whose wait is over is
\* fetched, and only it, and is at the back afterwards, whichever of the
\* two feeds was at the front.
C9_EligiblePolled ==
    (/\ poll.run = "done"
     /\ db = "open"
     /\ now = poll.at
     /\ Len(poll.order0) = 2
     /\ Cardinality(poll.elig0) = 1) =>
        LET e == CHOOSE f \in poll.elig0 : TRUE IN
        /\ poll.fetched = <<e>>
        /\ feeds[Len(feeds)] = e

\* C10 as the specification states it: a failed fetch yields exactly one
\* item made by oopsItem, its tags hold the error marker, and the feed's
\* lastLoadTime is the time of the attempt. (oopsItem() of variant A gives
\* the item no tag at all.)
C10_FetchFailure ==
    [][ \A i \in 1..Len(chain) :
          (/\ At(i, "loadMore", "fetch")
           /\ i \in 1..Len(chain')
           /\ chain'[i].pc = "push"
           /\ chain'[i].loc.newItems[1].title = "Oops...") =>
              /\ Len(chain'[i].loc.newItems) = 1
              /\ ErrorMarker \in Range(chain'[i].loc.newItems[1].tags)
              /\ feedStore'[chain[i].loc.feed.id].lastLoadTime = now
      ]_vars

\* C11: in a first session, when a poll that began on an empty list has
\* pushed the three entries of its document, all of them new, length() is
\* 3 and reading = known = -1; they stay so until the first forwardCursor,
\* which leaves reading = known = 0 and unreadCount() = 2.
C11_FirstSession ==
    [][ /\ \A i \in 1..Len(chain) :
              (/\ At(i, "loadMore", "push")
               /\ chain[i].loc.idx = 1
               /\ chain[i].loc.oldCount = 0
               /\ Len(chain[i].loc.newItems) = 3
               /\ Len(items) = 2
               /\ last'.ret) =>
                  (Len(items') = 3 /\ reading' = -1 /\ known' = -1)
        /\ (Len(items) = 3 /\ known = -1 /\ last'.fn # "forwardCursor") =>
              (reading' = -1 /\ known' = -1)
        /\ (Len(items) = 3 /\ known = -1 /\ last'.fn = "forwardCursor") =>
              /\ last'.ret
              /\ reading' = 0
              /\ known' = 0
              /\ UnreadOf(items', known') = 2
      ]_vars

\* C11, its case: the first forwardItem() after a poll of three new entries
C11_FirstForward ==
    /\ last = Call("forwardCursor", TRUE)
    /\ Len(items) = 3
    /\ reading = 0
    /\ known = 0
    /\ Cardinality(DOMAIN feedStore) = 1

\* C12: a subscribe of a feedUrl already subscribed, an unsubscribe of an
\* unknown feed id and a push of a taken url leave their step unrejected;
\* the first two dispatch alerts only, the push at most the items-loaded
\* event of its poll; so no later call is rejected on their account.
C12_ExpectedAbsorbed ==
    [][ (last'.fn \in {"addFeed", "removeFeed", "pushItem"} /\ ~last'.ret) =>
          /\ \A j \in 1..Len(chain') : chain'[j].st # "rejected"
          /\ \A n \in 1..Len(events') :
                /\ events'[n].ev \in {"alert", "items-loaded"}
                /\ last'.fn # "pushItem" => events'[n].ev = "alert"
      ]_vars

\* C12, its case: the subscribe of a subscribed feedUrl is over and the
\* cb_loadMore queued behind it has still to start
C12_DuplicateSubscribe ==
    /\ last = Call("addFeed", FALSE)
    /\ \E i \in 1..Len(chain) :
          chain[i].op = "loadMore" /\ chain[i].st = "pending"

\* C13: parseJSONItem of an entry with a url uses content_html unchanged
\* when the entry has one, whatever its content_text; with content_text
\* alone contentHtml is '<p>' + content_text + '</p>'; with neither of the
\* two there is no item.
C13_JSONContent ==
    last.fn = "parseJSONItem" =>
        LET json == fetches[1].entry IN
        /\ (json.content_html.k = "undefined"
              /\ json.content_text.k = "undefined") => last.ret = Null
        /\ (Truthy(json.url) /\ json.content_html.k # "undefined") =>
              (last.ret.k = "item"
                 /\ last.ret.item.contentHtml = json.content_html)
        /\ (Truthy(json.url) /\ json.content_html.k = "undefined"
              /\ json.content_text.k # "undefined") =>
              (last.ret.k = "item"
                 /\ last.ret.item.contentHtml.s =
                       <<"<p>">> \o json.content_text.s \o <<"</p>">>)

\* C13, its case: an entry with a url and content_text alone was parsed
C13_TextOnly ==
    /\ last.fn = "parseJSONItem"
    /\ fetches[1].entry.content_html.k = "undefined"
    /\ fetches[1].entry.content_text = Str(<<"text">>)
    /\ fetches[1].entry.url = Str(<<"url">>)
    /\ last.ret.k = "item"

\* C20 as the specification states it: each of the three normalizers
\* returns null, and throws nothing, for an entry without a content member
\* (neither the rich one nor the fallback) or without a usable url.
\* (parseATOMItem throws null when content and summary are both missing.)
C20_RejectsWithNull ==
    LET e == fetches[1].entry IN
    /\ (/\ last.fn = "parseJSONItem"
        /\ \/ (e.content_html.k = "undefined" /\ e.content_text.k = "undefined")
           \/ ~Truthy(e.url)) => last.ret = Null
    /\ (/\ last.fn = "parseRSS2Item"
        /\ \/ (~Truthy(e.content) /\ ~Truthy(e.description))
           \/ ~Truthy(e.link)) => last.ret = Null
    /\ (/\ last.fn = "parseATOMItem"
        /\ \/ (~Truthy(e.content) /\ ~Truthy(e.summary))
           \/ (~Truthy(e.alternate) /\ ~Truthy(e.link))) => last.ret = Null

\* C14 as the specification states it: every poll attempt has recorded the
\* feed's lastLoadTime before the feed can be selected again, so when
\* cb_getLoadCandidate hands a feed to the loader, no fetch of that feed is
\* under way and no cb_updateFeed of that feed has still to settle.
\* (cb_getLoadCandidate rotates the feed but leaves lastLoadTime to the
\* later cb_updateFeed, so a second request queued in between gets the
\* same feed.)
C14_RecordedBeforeSelected ==
    [][ (/\ last' = Call("getLoadCandidate", TRUE)
         /\ Len(fetches') = Len(fetches) + 1) =>
           LET f == fetches'[Len(fetches')].feed.id IN
           /\ \A n \in 1..Len(fetches) :
                 fetches[n].k = "fetch" => fetches[n].feed.id # f
           /\ \A i \in 1..Len(chain) :
                 (chain[i].op = "updateFeed" /\ chain[i].st \notin Settled)
                     => chain[i].arg.feed.id # f
      ]_vars

C16_WatermarkGates ==
    [][ /\ (\/ /\ poll'.fetched # poll.fetched
               /\ poll'.fetched # <<>>
            \/ /\ Len(fetches') = Len(fetches) + 1
               /\ fetches'[Len(fetches')].k = "fetch")
           => /\ unreadCount < WaterMark
              /\ UnreadOf(items', known') < WaterMark
        /\ (/\ unreadCount >= WaterMark
            /\ \A i \in 1..Len(chain) :
                  ~(chain[i].st = "running"
                      /\ chain[i].op \in {"loadMore", "updateFeed"})
            /\ \A n \in 1..Len(fetches) : fetches[n].k # "fetch")
           => /\ poll'.fetched = <<>>
              /\ \A n \in 1..Len(fetches') :
                    fetches'[n].k = "fetch" => n \in 1..Len(fetches)
              /\ \A i \in 1..Len(chain') :
                    chain'[i].st = "running" =>
                        chain'[i].op \notin {"loadMore", "getLoadCandidate"}
              /\ Len(feeds) >= 2 => feeds' # Tail(feeds) \o <<Head(feeds)>>
              /\ \A f \in (DOMAIN feedStore) \cap (DOMAIN feedStore') :
                    feedStore'[f].lastLoadTime = feedStore[f].lastLoadTime
      ]_vars

\* C16 witness: a run of loadMore is over after one poll, the unread count
\* having reached the watermark, while the feed now at the front is past its
\* wait
C16_StoppedByWatermark ==
    /\ poll.run = "done"
    /\ Len(poll.fetched) = 1
    /\ unreadCount >= WaterMark
    /\ Len(feeds) = 2
    /\ Head(feeds) \in DOMAIN feedStore
    /\ Eligible(feedStore[Head(feeds)], now)

C18_AscendingIds ==
    /\ [](\A m, n \in 1..Len(items) : m < n => items[m] < items[n])
    /\ [][ \A i \in 1..Len(chain) :
             (At(i, "loadMore", "push") /\ last' = Call("pushItem", TRUE)) =>
                LET loc == chain[i].loc IN
                /\ items' = Append(items, nextId)
                /\ itemStore'[nextId].url = loc.newItems[loc.idx].url
                /\ \A q \in (loc.oldCount + 1)..Len(items) :
                      \E m \in (loc.idx + 1)..Len(loc.newItems) :
                          itemStore[items[q]].url = loc.newItems[m].url
         ]_vars

\* C18 witness: after a delete of the first item, a poll of a document of two
\* entries has pushed the second entry and is about to push the first
C18_SecondEntryFirst ==
    \E i \in 1..Len(chain) :
        /\ At(i, "loadMore", "push")
        /\ Len(chain[i].loc.newItems) = 2
        /\ chain[i].loc.idx = 1
        /\ Len(items) = chain[i].loc.oldCount + 1
        /\ itemStore[items[Len(items)]].url = chain[i].loc.newItems[2].url
        /\ chain[i].loc.newItems[1].url # chain[i].loc.newItems[2].url
        /\ items[1] > 1

\* C19: markRead gets the item under the cursor. When cb_markRead takes the
\* item its cb_forwardItem was fulfilled with, and when the put of that item
\* is over, the id of the item is items[reading]; the put stores it with
\* read = true and moves neither the array nor the cursors
C19_MarkReadCurrent ==
    /\ [](\A i \in 2..Len(chain) :
            (/\ chain[i].op = "markRead"
             /\ chain[i].st = "pending"
             /\ chain[i - 1].st = "resolved"
             /\ chain[i - 1].val.k = "item")
                => /\ reading >= 0
                   /\ chain[i - 1].val.item.id = ItemAt(reading))
    /\ [][ \A i \in 1..Len(chain) :
             (At(i, "markRead", "put") /\ last' = Call("markRead", TRUE)) =>
                /\ reading >= 0
                /\ chain[i].loc.item.id = ItemAt(reading)
                /\ itemStore'[ItemAt(reading)].read
                /\ items' = items
                /\ reading' = reading
                /\ known' = known
         ]_vars

\* C19 witness: the item under the cursor has just been written as read
\* while a deleteItem called in the meantime waits in the chain
C19_MarkedWhileDeleteWaits ==
    /\ last = Call("markRead", TRUE)
    /\ reading >= 0
    /\ ItemAt(reading) \in DOMAIN itemStore
    /\ itemStore[ItemAt(reading)].read
    /\ \E j \in 1..Len(chain) :
          chain[j].op = "deleteItem" /\ chain[j].st = "pending"

\* C21: the cursors are ordered, -1 <= reading <= known <= length() - 1, in
\* every state; with an empty array both are -1; and a deleteCurrentItem that
\* returns true started with reading at 0 or above and leaves both cursors
\* at -1 or above
C21_CursorsOrdered ==
    /\ [](/\ -1 <= reading
          /\ reading <= known
          /\ known <= length - 1
          /\ (items = <<>> => (reading = -1 /\ known = -1)))
    /\ [][ last' = Call("deleteCurrentItem", TRUE) =>
              /\ reading >= 0
              /\ reading' = reading - 1
              /\ known' = known - 1
              /\ reading' >= -1
              /\ known' >= -1
         ]_vars

\* C21 witness: the only item of the array has been deleted
C21_LastItemDeleted ==
    /\ last = Call("deleteCurrentItem", TRUE)
    /\ items = <<>>
    /\ reading = -1
    /\ known = -1
    /\ nextId > 1

\* C22: the reload round trip. Whenever every call made so far is over and
\* none has failed, the stored items are the ones of the array, the ones
\* stored with read = true are the ones at the indices 0..known, and load on
\* the store gives the array and known back; and the load of a reloaded page
\* sets known to that value and reading to known
C22_ReloadRoundTrip ==
    /\ []((\A i \in 1..Len(chain) : chain[i].st = "resolved") =>
            /\ DOMAIN itemStore = Range(items)
            /\ {x \in DOMAIN itemStore : itemStore[x].read}
                  = {items[n] : n \in 1..(known + 1)}
            /\ load(itemStore).items = items
            /\ load(itemStore).known = known)
    /\ [][ last' = Call("load", TRUE) =>
              /\ items' = load(itemStore).items
              /\ known' = load(itemStore).known
              /\ reading' = known'
         ]_vars

\* C22 witness: a page that was reloaded after reads and a delete has
\* loaded: the cursors are on the last read item, an unread one behind it
C22_ReloadedAfterReads ==
    /\ last = Call("load", TRUE)
    /\ known >= 0
    /\ reading = known
    /\ Len(items) = known + 2
    /\ items[1] > 1
    /\ itemStore[items[known + 1]].read
    /\ ~itemStore[items[known + 2]].read

\* C23: a subscribe of a feedUrl that is subscribed already leaves the
\* registry as it is and dispatches the error alert and nothing else; the
\* info alert 'is now subscribed' is dispatched when, and only when, the feed
\* was added
C23_InfoIffAdded ==
    [][ last'.fn = "addFeed" =>
          /\ (\E n \in 1..Len(events') :
                 events'[n] = Emit("info", "is now subscribed")) <=> last'.ret
          /\ ~last'.ret =>
                /\ events' = <<Emit("error", "is already subscribed")>>
                /\ UNCHANGED FeedVars
      ]_vars

====
